---- MODULE Spec2Model ----
(***************************************************************************)
(* Model of run_fp32.py: the Real-ESRGAN conversion-and-inference pipeline *)
(* (download_model, export_realesrgan_to_onnx, convert_to_openvino with    *)
(* convert_step_by_step, run_gpu_inference, main).                         *)
(*                                                                         *)
(* The program is sequential.  Each function is a small state machine      *)
(* whose position is a pc variable; one action is one statement group of   *)
(* the source.  A library call that can raise is a pair of actions: the    *)
(* call returning, and the call raising (caught by the enclosing           *)
(* try/except where the source has one).  The file system (weight file,    *)
(* ONNX file, IR file, output image, ov_model directory) is state.         *)
(***************************************************************************)
EXTENDS Integers, Sequences, FiniteSets

VARIABLES
    \* ---- file system
    modelFile,   \* MODEL_PATH: [exists, blocks]
    onnxFile,    \* realesrgan_x4.onnx exists
    xmlFile,     \* ov_model/realesrgan_x4.xml: "absent" | "fp16" | "fp32"
    outFile,     \* output.jpg exists
    ovDir,       \* ov_model: "absent" | "dir" | "blocked" (makedirs raises)
    \* ---- main
    mpc,         \* position of main (or "harness": a caller of download_model)
    stageLog,    \* the stages main has started, in order
    \* ---- download_model
    dpc,         \* position inside download_model
    dlLog,       \* one record per call: [hit, req, wrote, ret]
    \* ---- export_realesrgan_to_onnx
    epc,         \* position inside the exporter
    keys,        \* keys of the loaded container (state_dict), or NotLoaded
    bound,       \* sequence of the parameter sets handed to load_state_dict
    onnxRet,     \* "unset" | "None" | "path"
    \* ---- convert_to_openvino / convert_step_by_step
    cpc,         \* position inside the converter
    primary,     \* outcome of the primary path
    fallback,    \* outcome of convert_step_by_step
    ovRet,       \* "unset" | "None" | "path" | "raised"
    \* ---- run_gpu_inference
    ipc,         \* position inside the executor
    devices,     \* core.available_devices
    dynamic,     \* partial_shape.is_dynamic of the model read
    readImg,     \* what cv2.imread returned (NoImage: None)
    img,         \* the image: NoImage or [h, w, srcH, srcW, kind]
    trace,       \* the operations performed by this call, in order
    compiledOn,  \* devices compile_model was invoked with
    wroteOut,    \* this call wrote the output image
    iret,        \* "unset" | "True" | "False"
    retAt        \* the step at which run_gpu_inference returned

fsVars  == <<modelFile, onnxFile, xmlFile, outFile, ovDir>>
mVars   == <<mpc, stageLog>>
dVars   == <<dpc, dlLog>>
eVars   == <<epc, keys, bound, onnxRet>>
cVars   == <<cpc, primary, fallback, ovRet>>
iVars   == <<ipc, devices, dynamic, readImg, img, trace, compiledOn, wroteOut,
             iret, retAt>>
vars    == <<fsVars, mVars, dVars, eVars, cVars, iVars>>

(***************************************************************************)
(* Bounds and program constants                                            *)
(***************************************************************************)
\* size of the remote weight file, in blocks of block_size bytes
NumBlocks == 3
\* number of download_model calls the harness makes in a row
MaxCalls == 4
\* largest image side drawn for cv2.imread's result
MaxDim == 300

\* the stride of the network: (h // 64) * 64
Stride == 64
\* side of the default test image: np.zeros((256, 256, 3))
PlaceholderDim == 256

\* the accelerator the executor insists on: device = "GPU"
TargetDevice == "GPU"
DeviceNames == {"CPU", "GPU", "NPU"}

\* image sides drawn: the multiples of the stride and the sides just above,
\* well above and just below one (4 and 44 are 260 and 300 modulo 64), and
\* the largest side
DimSet == {d \in 1..MaxDim : d % Stride \in {0, 4, 44, 63}} \cup {MaxDim}

LayoutKeys == {"params_ema", "params", "model"}
\* keys before torch.load has returned
NotLoaded == {"<not loaded>"}
\* the None of cv2.imread, as an image record of no size
NoImage == [h |-> 0, w |-> 0, srcH |-> 0, srcW |-> 0, kind |-> "None"]

(***************************************************************************)
(* download_model                                                          *)
(***************************************************************************)
NewCall == [hit |-> FALSE, req |-> 0, wrote |-> FALSE, ret |-> "pending"]

\* the record of the call in progress (or of the last call)
Cur == dlLog[Len(dlLog)]
SetCur(r) == [dlLog EXCEPT ![Len(dlLog)] = r]

\* line 39 with the cache check left out: every call downloads again
CacheHitNever == FALSE
\* os.path.exists(MODEL_PATH)
CacheHit == modelFile.exists

\* return True / return False of download_model
DlReturn(v) ==
    /\ dpc' = "done"
    /\ dlLog' = SetCur([Cur EXCEPT !.ret = v])

\* except Exception: return False; the file system stays as the fault left it
DlFault ==
    /\ dpc' = "done"
    /\ dlLog' = SetCur([Cur EXCEPT !.ret = "False"])
    /\ UNCHANGED <<fsVars, mVars, eVars, cVars, iVars>>

\* if os.path.exists(MODEL_PATH): return True
DlEntryHit ==
    /\ dpc = "entry"
    /\ CacheHit
    /\ dpc' = "done"
    /\ dlLog' = SetCur([Cur EXCEPT !.hit = TRUE, !.ret = "True"])
    /\ UNCHANGED <<fsVars, mVars, eVars, cVars, iVars>>

DlEntryMiss ==
    /\ dpc = "entry"
    /\ ~CacheHit
    /\ dpc' = "get"
    /\ UNCHANGED <<dlLog, fsVars, mVars, eVars, cVars, iVars>>

\* response = requests.get(model_url, stream=True)
DlGet ==
    /\ dpc = "get"
    /\ dpc' = "status"
    /\ dlLog' = SetCur([Cur EXCEPT !.req = @ + 1])
    /\ UNCHANGED <<fsVars, mVars, eVars, cVars, iVars>>

\* requests.get raises (no connection): the request was made and failed
DlGetFault ==
    /\ dpc = "get"
    /\ dpc' = "done"
    /\ dlLog' = SetCur([Cur EXCEPT !.req = @ + 1, !.ret = "False"])
    /\ UNCHANGED <<fsVars, mVars, eVars, cVars, iVars>>

\* response.raise_for_status(); total_size = int(...content-length...)
DlStatus ==
    /\ dpc = "status"
    /\ dpc' = "open"
    /\ UNCHANGED <<dlLog, fsVars, mVars, eVars, cVars, iVars>>

DlStatusFault ==
    /\ dpc = "status"
    /\ DlFault

\* with open(MODEL_PATH, 'wb') as f: the file is created empty
DlOpen ==
    /\ dpc = "open"
    /\ dpc' = "stream"
    /\ modelFile' = [exists |-> TRUE, blocks |-> 0]
    /\ dlLog' = SetCur([Cur EXCEPT !.wrote = TRUE])
    /\ UNCHANGED <<onnxFile, xmlFile, outFile, ovDir, mVars, eVars, cVars, iVars>>

DlOpenFault ==
    /\ dpc = "open"
    /\ DlFault

\* for data in response.iter_content(block_size): f.write(data)
DlBlock ==
    /\ dpc = "stream"
    /\ modelFile.blocks < NumBlocks
    /\ modelFile' = [modelFile EXCEPT !.blocks = @ + 1]
    /\ UNCHANGED <<dVars, onnxFile, xmlFile, outFile, ovDir, mVars, eVars, cVars, iVars>>

\* iter_content raises mid-stream, or f.write raises: the with block closes
\* the file and the handler returns False; the file stays as written so far
DlBlockFault ==
    /\ dpc = "stream"
    /\ modelFile.blocks < NumBlocks
    /\ DlFault

\* the stream is exhausted: return True
DlFinish ==
    /\ dpc = "stream"
    /\ modelFile.blocks = NumBlocks
    /\ DlReturn("True")
    /\ UNCHANGED <<fsVars, mVars, eVars, cVars, iVars>>

download_model ==
    \/ DlEntryHit
    \/ DlEntryMiss
    \/ DlGet
    \/ DlGetFault
    \/ DlStatus
    \/ DlStatusFault
    \/ DlOpen
    \/ DlOpenFault
    \/ DlBlock
    \/ DlBlockFault
    \/ DlFinish

\* a caller that invokes download_model again once the previous call returned
HarnessCall ==
    /\ mpc = "harness"
    /\ dpc \in {"idle", "done"}
    /\ Len(dlLog) < MaxCalls
    /\ dpc' = "entry"
    /\ dlLog' = Append(dlLog, NewCall)
    /\ UNCHANGED <<fsVars, mVars, eVars, cVars, iVars>>

(***************************************************************************)
(* export_realesrgan_to_onnx                                               *)
(***************************************************************************)
\* the elif chain with 'params' tested before 'params_ema'
LayoutKeyParamsFirst(K) ==
    IF "params" \in K THEN "params"
    ELSE IF "params_ema" \in K THEN "params_ema"
    ELSE IF "model" \in K THEN "model"
    ELSE "flat"
\* which parameter set is handed to load_state_dict for a container whose
\* recognised keys are K ("flat": the container itself)
LayoutKey(K) ==
    IF "params_ema" \in K THEN "params_ema"
    ELSE IF "params" \in K THEN "params"
    ELSE IF "model" \in K THEN "model"
    ELSE "flat"

\* except Exception: return None
ExFault ==
    /\ epc' = "done"
    /\ onnxRet' = "None"
    /\ UNCHANGED <<keys, bound, fsVars, mVars, dVars, cVars, iVars>>

\* from basicsr... import RRDBNet; model = RRDBNet(...)
ExArch ==
    /\ epc = "entry"
    /\ epc' = "load"
    /\ UNCHANGED <<keys, bound, onnxRet, fsVars, mVars, dVars, cVars, iVars>>

ExArchFault ==
    /\ epc = "entry"
    /\ ExFault

\* state_dict = torch.load(MODEL_PATH): only a complete file unpickles
ExLoad ==
    /\ epc = "load"
    /\ modelFile.exists /\ modelFile.blocks = NumBlocks
    /\ \E K \in SUBSET LayoutKeys : keys' = K
    /\ epc' = "bind"
    /\ UNCHANGED <<bound, onnxRet, fsVars, mVars, dVars, cVars, iVars>>

\* torch.load raises (truncated, corrupt or unreadable file)
ExLoadFault ==
    /\ epc = "load"
    /\ ExFault

\* model.load_state_dict(...) of the detected layout
ExBind ==
    /\ epc = "bind"
    /\ bound' = Append(bound, LayoutKey(keys))
    /\ epc' = "export"
    /\ UNCHANGED <<keys, onnxRet, fsVars, mVars, dVars, cVars, iVars>>

\* load_state_dict raises on a name or shape mismatch
ExBindFault ==
    /\ epc = "bind"
    /\ bound' = Append(bound, LayoutKey(keys))
    /\ epc' = "done"
    /\ onnxRet' = "None"
    /\ UNCHANGED <<keys, fsVars, mVars, dVars, cVars, iVars>>

\* model.eval(); torch.onnx.export(...): returns, having written the file
\* or not (the source checks)
ExExport ==
    /\ epc = "export"
    /\ \E written \in BOOLEAN : onnxFile' = (onnxFile \/ written)
    /\ epc' = "check"
    /\ UNCHANGED <<keys, bound, onnxRet, modelFile, xmlFile, outFile, ovDir,
                   mVars, dVars, cVars, iVars>>

ExExportFault ==
    /\ epc = "export"
    /\ ExFault

\* if os.path.exists(onnx_path): return onnx_path
ExCheckOk ==
    /\ epc = "check"
    /\ onnxFile
    /\ epc' = "done"
    /\ onnxRet' = "path"
    /\ UNCHANGED <<keys, bound, fsVars, mVars, dVars, cVars, iVars>>

\* else: return None
ExCheckMissing ==
    /\ epc = "check"
    /\ ~onnxFile
    /\ epc' = "done"
    /\ onnxRet' = "None"
    /\ UNCHANGED <<keys, bound, fsVars, mVars, dVars, cVars, iVars>>

export_realesrgan_to_onnx ==
    \/ ExArch
    \/ ExArchFault
    \/ ExLoad
    \/ ExLoadFault
    \/ ExBind
    \/ ExBindFault
    \/ ExExport
    \/ ExExportFault
    \/ ExCheckOk
    \/ ExCheckMissing

(***************************************************************************)
(* convert_to_openvino and convert_step_by_step                            *)
(***************************************************************************)
noCv == <<fsVars, mVars, dVars, eVars, iVars>>

\* os.makedirs(ov_dir, exist_ok=True): before the try
CvMkdir ==
    /\ cpc = "entry"
    /\ ovDir \in {"absent", "dir"}
    /\ ovDir' = "dir"
    /\ cpc' = "convert"
    /\ UNCHANGED <<primary, fallback, ovRet, modelFile, onnxFile, xmlFile,
                   outFile, mVars, dVars, eVars, iVars>>

\* os.makedirs raises (ov_model is a regular file, or the directory cannot
\* be created): no handler encloses it, the exception leaves the function
CvMkdirRaise ==
    /\ cpc = "entry"
    /\ ovDir = "blocked"
    /\ cpc' = "done"
    /\ ovRet' = "raised"
    /\ UNCHANGED <<primary, fallback, noCv>>

\* ov_model = ov.convert_model(onnx_path)
CvConvert ==
    /\ cpc = "convert"
    /\ cpc' = "save"
    /\ UNCHANGED <<primary, fallback, ovRet, noCv>>

\* except Exception: return convert_step_by_step(onnx_path, xml_path)
CvPrimaryRaised ==
    /\ cpc' = "fb_core"
    /\ primary' = "raised"
    /\ fallback' = "started"
    /\ UNCHANGED <<ovRet, noCv>>

CvConvertFault ==
    /\ cpc = "convert"
    /\ CvPrimaryRaised

\* ov.save_model(ov_model, xml_path, compress_to_fp16=True)
CvSave ==
    /\ cpc = "save"
    /\ \E written \in BOOLEAN : xmlFile' = IF written THEN "fp16" ELSE xmlFile
    /\ cpc' = "check"
    /\ UNCHANGED <<primary, fallback, ovRet, modelFile, onnxFile, outFile,
                   ovDir, mVars, dVars, eVars, iVars>>

CvSaveFault ==
    /\ cpc = "save"
    /\ CvPrimaryRaised

\* if os.path.exists(xml_path): return xml_path
CvCheckOk ==
    /\ cpc = "check"
    /\ xmlFile # "absent"
    /\ cpc' = "done"
    /\ primary' = "ok"
    /\ ovRet' = "path"
    /\ UNCHANGED <<fallback, noCv>>

\* else: return None
CvCheckMissing ==
    /\ cpc = "check"
    /\ xmlFile = "absent"
    /\ cpc' = "done"
    /\ primary' = "nofile"
    /\ ovRet' = "None"
    /\ UNCHANGED <<fallback, noCv>>

\* convert_step_by_step: except Exception: return None
FbFault ==
    /\ cpc' = "done"
    /\ fallback' = "raised"
    /\ ovRet' = "None"
    /\ UNCHANGED <<primary, noCv>>

\* core = ov.Core(); model = core.read_model(onnx_path)
FbRead ==
    /\ cpc = "fb_core"
    /\ cpc' = "fb_shape"
    /\ UNCHANGED <<primary, fallback, ovRet, noCv>>

FbReadFault ==
    /\ cpc = "fb_core"
    /\ FbFault

\* partial_shape[2].is_dynamic and partial_shape[3].is_dynamic
FbShapeDynamic ==
    /\ cpc = "fb_shape"
    /\ cpc' = "fb_save"
    /\ UNCHANGED <<primary, fallback, ovRet, noCv>>

\* else: partial_shape[2] = -1; partial_shape[3] = -1; model.reshape(...)
FbReshape ==
    /\ cpc = "fb_shape"
    /\ cpc' = "fb_save"
    /\ fallback' = "reshaped"
    /\ UNCHANGED <<primary, ovRet, noCv>>

FbReshapeFault ==
    /\ cpc = "fb_shape"
    /\ FbFault

\* ov.save_model(model, xml_path, compress_to_fp16=False)
FbSave ==
    /\ cpc = "fb_save"
    /\ \E written \in BOOLEAN : xmlFile' = IF written THEN "fp32" ELSE xmlFile
    /\ cpc' = "fb_check"
    /\ UNCHANGED <<primary, fallback, ovRet, modelFile, onnxFile, outFile,
                   ovDir, mVars, dVars, eVars, iVars>>

FbSaveFault ==
    /\ cpc = "fb_save"
    /\ FbFault

FbCheckOk ==
    /\ cpc = "fb_check"
    /\ xmlFile # "absent"
    /\ cpc' = "done"
    /\ fallback' = "ok"
    /\ ovRet' = "path"
    /\ UNCHANGED <<primary, noCv>>

FbCheckMissing ==
    /\ cpc = "fb_check"
    /\ xmlFile = "absent"
    /\ cpc' = "done"
    /\ fallback' = "nofile"
    /\ ovRet' = "None"
    /\ UNCHANGED <<primary, noCv>>

convert_step_by_step ==
    \/ FbRead
    \/ FbReadFault
    \/ FbShapeDynamic
    \/ FbReshape
    \/ FbReshapeFault
    \/ FbSave
    \/ FbSaveFault
    \/ FbCheckOk
    \/ FbCheckMissing

convert_to_openvino ==
    \/ CvMkdir
    \/ CvMkdirRaise
    \/ CvConvert
    \/ CvConvertFault
    \/ CvSave
    \/ CvSaveFault
    \/ CvCheckOk
    \/ CvCheckMissing
    \/ convert_step_by_step

(***************************************************************************)
(* run_gpu_inference                                                       *)
(***************************************************************************)
noInf == <<mVars, dVars, eVars, cVars>>

\* img = np.zeros((256, 256, 3)); cv2.putText(img, "GPU Test", ...)
Placeholder ==
    [h |-> PlaceholderDim, w |-> PlaceholderDim,
     srcH |-> PlaceholderDim, srcW |-> PlaceholderDim, kind |-> "placeholder"]

\* an image as cv2.imread returns it: every pixel is a pixel of the picture,
\* so the picture region it shows (srcH x srcW) is its own size
FileImage(h, w) ==
    [h |-> h, w |-> w, srcH |-> h, srcW |-> w, kind |-> "file"]

\* the "if img is None" block left out: the read result is used as it is
IngestNoSubstitute(r) == r
\* if img is None: img = <placeholder>
Ingest(r) == IF r = NoImage THEN Placeholder ELSE r

\* new_h = ((h + 63) // 64) * 64: rounding up instead of down
NewDimCeil(d) == ((d + Stride - 1) \div Stride) * Stride
\* new_h = (h // 64) * 64
NewDim(d) == (d \div Stride) * Stride

\* cv2.resize(img, (new_w, new_h)): the whole picture resampled to the new
\* size (the region shown stays, the size changes)
Resize(i, nw, nh) == [i EXCEPT !.h = nh, !.w = nw]

\* the fail-closed test relaxed to "any device will do"
DeviceOkAny == devices # {}
\* if "GPU" in devices
DeviceOk == "GPU" \in devices

\* return of run_gpu_inference at step s
InfReturn(v, s) ==
    /\ ipc' = "done"
    /\ iret' = v
    /\ retAt' = s

\* except Exception: return False
InfFault(s) ==
    /\ InfReturn("False", s)
    /\ UNCHANGED <<devices, dynamic, readImg, img, trace, compiledOn, wroteOut,
                   fsVars, noInf>>

\* core = Core()
InfCore ==
    /\ ipc = "core"
    /\ ipc' = "devices"
    /\ trace' = Append(trace, "Core")
    /\ UNCHANGED <<devices, dynamic, readImg, img, compiledOn, wroteOut, iret,
                   retAt, fsVars, noInf>>

InfCoreFault ==
    /\ ipc = "core"
    /\ InfFault("core")

\* devices = core.available_devices
InfDevices ==
    /\ ipc = "devices"
    /\ \E D \in SUBSET DeviceNames : devices' = D
    /\ ipc' = "select"
    /\ trace' = Append(trace, "available_devices")
    /\ UNCHANGED <<dynamic, readImg, img, compiledOn, wroteOut, iret, retAt,
                   fsVars, noInf>>

\* if "GPU" in devices: (go on)
InfSelect ==
    /\ ipc = "select"
    /\ DeviceOk
    /\ ipc' = "read_model"
    /\ UNCHANGED <<devices, dynamic, readImg, img, trace, compiledOn, wroteOut,
                   iret, retAt, fsVars, noInf>>

\* else: return False
InfNoGPU ==
    /\ ipc = "select"
    /\ ~DeviceOk
    /\ InfReturn("False", "select")
    /\ UNCHANGED <<devices, dynamic, readImg, img, trace, compiledOn, wroteOut,
                   fsVars, noInf>>

\* model = core.read_model(ov_model_path)
InfReadModel ==
    /\ ipc = "read_model"
    /\ \E dyn \in BOOLEAN : dynamic' = dyn
    /\ ipc' = "ingest"
    /\ trace' = Append(trace, "read_model")
    /\ UNCHANGED <<devices, readImg, img, compiledOn, wroteOut, iret, retAt,
                   fsVars, noInf>>

InfReadModelFault ==
    /\ ipc = "read_model"
    /\ InfFault("read_model")

\* img = cv2.imread(input_image_path), the file readable
InfImread ==
    /\ ipc = "ingest"
    /\ \E h \in DimSet, w \in DimSet : readImg' = FileImage(h, w)
    /\ img' = Ingest(readImg')
    /\ ipc' = "normalize"
    /\ trace' = Append(trace, "imread")
    /\ UNCHANGED <<devices, dynamic, compiledOn, wroteOut, iret, retAt,
                   fsVars, noInf>>

\* cv2.imread returns None (missing or unreadable file); the placeholder is
\* built from constants only (np.zeros, cv2.putText), which does not fail
InfImreadNone ==
    /\ ipc = "ingest"
    /\ readImg' = NoImage
    /\ img' = Ingest(readImg')
    /\ ipc' = "normalize"
    /\ trace' = Append(trace, "imread")
    /\ UNCHANGED <<devices, dynamic, compiledOn, wroteOut, iret, retAt,
                   fsVars, noInf>>

\* h, w = img.shape[:2]; new_h, new_w; no adjustment needed
InfKeepSize ==
    /\ ipc = "normalize"
    /\ img # NoImage
    /\ NewDim(img.h) = img.h /\ NewDim(img.w) = img.w
    /\ ipc' = "preprocess"
    /\ UNCHANGED <<devices, dynamic, readImg, img, trace, compiledOn, wroteOut,
                   iret, retAt, fsVars, noInf>>

\* if new_h != h or new_w != w: img = cv2.resize(img, (new_w, new_h))
InfResize ==
    /\ ipc = "normalize"
    /\ img # NoImage
    /\ NewDim(img.h) # img.h \/ NewDim(img.w) # img.w
    /\ NewDim(img.h) > 0 /\ NewDim(img.w) > 0
    /\ img' = Resize(img, NewDim(img.w), NewDim(img.h))
    /\ ipc' = "preprocess"
    /\ trace' = Append(trace, "resize")
    /\ UNCHANGED <<devices, dynamic, readImg, compiledOn, wroteOut, iret, retAt,
                   fsVars, noInf>>

\* img.shape of None raises; cv2.resize raises on an empty target size
\* (a side below the stride gives new_h = 0 or new_w = 0)
InfNormalizeFault ==
    /\ ipc = "normalize"
    /\ IF img = NoImage THEN TRUE
       ELSE NewDim(img.h) = 0 \/ NewDim(img.w) = 0
    /\ InfFault("normalize")

\* input_data = img.astype(np.float32) / 255.0; transpose; expand_dims
InfPreprocess ==
    /\ ipc = "preprocess"
    /\ ipc' = "negotiate"
    /\ trace' = Append(trace, "preprocess")
    /\ UNCHANGED <<devices, dynamic, readImg, img, compiledOn, wroteOut, iret,
                   retAt, fsVars, noInf>>

\* if partial_shape.is_dynamic: model.reshape({input_layer_name: partial_shape})
InfReshape ==
    /\ ipc = "negotiate"
    /\ dynamic
    /\ ipc' = "compile"
    /\ trace' = Append(trace, "reshape")
    /\ UNCHANGED <<devices, dynamic, readImg, img, compiledOn, wroteOut, iret,
                   retAt, fsVars, noInf>>

InfReshapeFault ==
    /\ ipc = "negotiate"
    /\ dynamic
    /\ InfFault("negotiate")

\* the shape is static: no reshape; config = {...}
InfStatic ==
    /\ ipc = "negotiate"
    /\ ~dynamic
    /\ ipc' = "compile"
    /\ UNCHANGED <<devices, dynamic, readImg, img, trace, compiledOn, wroteOut,
                   iret, retAt, fsVars, noInf>>

\* compiled_model = core.compile_model(model, device, config)
InfCompile ==
    /\ ipc = "compile"
    /\ compiledOn' = compiledOn \cup {TargetDevice}
    /\ ipc' = "execute"
    /\ trace' = Append(trace, "compile_model")
    /\ UNCHANGED <<devices, dynamic, readImg, img, wroteOut, iret, retAt,
                   fsVars, noInf>>

\* compile_model (or create_infer_request) raises
InfCompileFault ==
    /\ ipc = "compile"
    /\ compiledOn' = compiledOn \cup {TargetDevice}
    /\ trace' = Append(trace, "compile_model")
    /\ InfReturn("False", "compile")
    /\ UNCHANGED <<devices, dynamic, readImg, img, wroteOut, fsVars, noInf>>

\* infer_request.infer({input_layer_name: input_data})
InfExecute ==
    /\ ipc = "execute"
    /\ ipc' = "postprocess"
    /\ trace' = Append(trace, "infer")
    /\ UNCHANGED <<devices, dynamic, readImg, img, compiledOn, wroteOut, iret,
                   retAt, fsVars, noInf>>

InfExecuteFault ==
    /\ ipc = "execute"
    /\ InfFault("execute")

\* result = ...get_output_tensor(...).data; squeeze; transpose; clip
InfPostprocess ==
    /\ ipc = "postprocess"
    /\ ipc' = "persist"
    /\ trace' = Append(trace, "postprocess")
    /\ UNCHANGED <<devices, dynamic, readImg, img, compiledOn, wroteOut, iret,
                   retAt, fsVars, noInf>>

InfPostprocessFault ==
    /\ ipc = "postprocess"
    /\ InfFault("postprocess")

\* cv2.imwrite(output_image_path, output_data) writes the file; return True
InfPersist ==
    /\ ipc = "persist"
    /\ outFile' = TRUE
    /\ wroteOut' = TRUE
    /\ trace' = Append(trace, "imwrite")
    /\ InfReturn("True", "end")
    /\ UNCHANGED <<devices, dynamic, readImg, img, compiledOn, modelFile,
                   onnxFile, xmlFile, ovDir, noInf>>

\* cv2.imwrite returns False (the path cannot be written): the return value
\* is not looked at; return True
InfPersistNotWritten ==
    /\ ipc = "persist"
    /\ trace' = Append(trace, "imwrite")
    /\ InfReturn("True", "end")
    /\ UNCHANGED <<devices, dynamic, readImg, img, compiledOn, wroteOut,
                   fsVars, noInf>>

\* cv2.imwrite raises (no encoder for the extension)
InfPersistFault ==
    /\ ipc = "persist"
    /\ trace' = Append(trace, "imwrite")
    /\ InfReturn("False", "persist")
    /\ UNCHANGED <<devices, dynamic, readImg, img, compiledOn, wroteOut,
                   fsVars, noInf>>

run_gpu_inference ==
    \/ InfCore
    \/ InfCoreFault
    \/ InfDevices
    \/ InfSelect
    \/ InfNoGPU
    \/ InfReadModel
    \/ InfReadModelFault
    \/ InfImread
    \/ InfImreadNone
    \/ InfKeepSize
    \/ InfResize
    \/ InfNormalizeFault
    \/ InfPreprocess
    \/ InfReshape
    \/ InfReshapeFault
    \/ InfStatic
    \/ InfCompile
    \/ InfCompileFault
    \/ InfExecute
    \/ InfExecuteFault
    \/ InfPostprocess
    \/ InfPostprocessFault
    \/ InfPersist
    \/ InfPersistNotWritten
    \/ InfPersistFault

(***************************************************************************)
(* main                                                                    *)
(***************************************************************************)
StageOrder ==
    <<"download_model", "export_realesrgan_to_onnx", "convert_to_openvino",
      "run_gpu_inference">>

\* the test after the export dropped: main goes on whatever was returned
ExportOkAlways == TRUE
\* not (onnx_path is None or not os.path.exists(onnx_path))
ExportOk == onnxRet = "path" /\ onnxFile

\* not (ov_path is None or not os.path.exists(ov_path))
ConvertOk == ovRet = "path" /\ xmlFile # "absent"

\* main(): if not download_model(): the call
MainStart ==
    /\ mpc = "start"
    /\ mpc' = "download"
    /\ stageLog' = Append(stageLog, StageOrder[1])
    /\ dpc' = "entry"
    /\ dlLog' = Append(dlLog, NewCall)
    /\ UNCHANGED <<fsVars, eVars, cVars, iVars>>

\* if not download_model(): return
MainDownloadFailed ==
    /\ mpc = "download" /\ dpc = "done"
    /\ Cur.ret # "True"
    /\ mpc' = "halted"
    /\ UNCHANGED <<stageLog, fsVars, dVars, eVars, cVars, iVars>>

\* onnx_path = export_realesrgan_to_onnx(): the call
MainCallExport ==
    /\ mpc = "download" /\ dpc = "done"
    /\ Cur.ret = "True"
    /\ mpc' = "export"
    /\ stageLog' = Append(stageLog, StageOrder[2])
    /\ epc' = "entry"
    /\ UNCHANGED <<keys, bound, onnxRet, fsVars, dVars, cVars, iVars>>

\* if onnx_path is None or not os.path.exists(onnx_path): return
MainExportFailed ==
    /\ mpc = "export" /\ epc = "done"
    /\ ~ExportOk
    /\ mpc' = "halted"
    /\ UNCHANGED <<stageLog, fsVars, dVars, eVars, cVars, iVars>>

\* ov_path = convert_to_openvino(onnx_path): the call; the exporter's
\* locals (state_dict, model) are gone
MainCallConvert ==
    /\ mpc = "export" /\ epc = "done"
    /\ ExportOk
    /\ mpc' = "convert"
    /\ stageLog' = Append(stageLog, StageOrder[3])
    /\ cpc' = "entry"
    /\ keys' = NotLoaded /\ bound' = <<>>
    /\ UNCHANGED <<epc, onnxRet, primary, fallback, ovRet, fsVars, dVars, iVars>>

\* the exception of os.makedirs leaves convert_to_openvino and main
MainConvertRaised ==
    /\ mpc = "convert" /\ cpc = "done"
    /\ ovRet = "raised"
    /\ mpc' = "crashed"
    /\ UNCHANGED <<stageLog, fsVars, dVars, eVars, cVars, iVars>>

\* if ov_path is None or not os.path.exists(ov_path): return
MainConvertFailed ==
    /\ mpc = "convert" /\ cpc = "done"
    /\ ovRet # "raised"
    /\ ~ConvertOk
    /\ mpc' = "halted"
    /\ UNCHANGED <<stageLog, fsVars, dVars, eVars, cVars, iVars>>

\* success = run_gpu_inference(ov_path, input_image, output_image): the call
MainCallInference ==
    /\ mpc = "convert" /\ cpc = "done"
    /\ ovRet # "raised"
    /\ ConvertOk
    /\ mpc' = "infer"
    /\ stageLog' = Append(stageLog, StageOrder[4])
    /\ ipc' = "core"
    /\ primary' = "none" /\ fallback' = "none"
    /\ UNCHANGED <<cpc, ovRet, devices, dynamic, readImg, img, trace,
                   compiledOn, wroteOut, iret, retAt, fsVars, dVars, eVars>>

\* if success: ... else: print(...); main returns (the matplotlib display
\* of the two images changes nothing modelled here)
MainFinish ==
    /\ mpc = "infer" /\ ipc = "done"
    /\ mpc' = "finished"
    /\ UNCHANGED <<stageLog, fsVars, dVars, eVars, cVars, iVars>>

main ==
    \/ MainStart
    \/ MainDownloadFailed
    \/ MainCallExport
    \/ MainExportFailed
    \/ MainCallConvert
    \/ MainConvertRaised
    \/ MainConvertFailed
    \/ MainCallInference
    \/ MainFinish

(***************************************************************************)
(* States shared by the specifications                                     *)
(***************************************************************************)
IdleStages ==
    /\ dpc = "idle" /\ dlLog = <<>>
    /\ epc = "idle" /\ keys = NotLoaded /\ bound = <<>> /\ onnxRet = "unset"
    /\ cpc = "idle" /\ primary = "none" /\ fallback = "none" /\ ovRet = "unset"
    /\ ipc = "idle" /\ devices = {} /\ dynamic = FALSE /\ readImg = NoImage
    /\ img = NoImage /\ trace = <<>> /\ compiledOn = {} /\ wroteOut = FALSE
    /\ iret = "unset" /\ retAt = "none"

\* the weight file is absent or complete; nothing else is on disk
InitProvision ==
    /\ modelFile \in {[exists |-> FALSE, blocks |-> 0],
                      [exists |-> TRUE, blocks |-> NumBlocks]}
    /\ onnxFile = FALSE /\ xmlFile = "absent" /\ outFile = FALSE
    /\ ovDir = "absent"
    /\ mpc = "harness" /\ stageLog = <<>>
    /\ IdleStages

NextProvision ==
    \/ HarnessCall
    \/ download_model

SpecProvision == InitProvision /\ [][NextProvision]_vars

\* what earlier runs may have left on disk: the weight file absent, partly
\* or wholly written; the ONNX file, the IR file and the output image there
\* or not; ov_model a directory, absent, or not creatable
Init ==
    /\ modelFile \in {[exists |-> FALSE, blocks |-> 0]}
                     \cup {[exists |-> TRUE, blocks |-> b] : b \in 0..NumBlocks}
    /\ onnxFile \in BOOLEAN
    /\ xmlFile \in {"absent", "fp16", "fp32"}
    /\ outFile \in BOOLEAN
    /\ ovDir \in {"absent", "dir", "blocked"}
    /\ xmlFile # "absent" => ovDir = "dir"
    /\ mpc = "start" /\ stageLog = <<>>
    /\ IdleStages

Next ==
    \/ main
    \/ download_model
    \/ export_realesrgan_to_onnx
    \/ convert_to_openvino
    \/ run_gpu_inference

Spec == Init /\ [][Next]_vars

(***************************************************************************)
(* Properties                                                              *)
(***************************************************************************)
Performed(op) == \E i \in DOMAIN trace : trace[i] = op

\* cv2.imread was called and returned None
ReadFailed == Performed("imread") /\ readImg = NoImage

\* the steps of run_gpu_inference after shape normalization
PastNormalize ==
    \/ ipc \in {"preprocess", "negotiate", "compile", "execute", "postprocess",
                "persist"}
    \/ ipc = "done" /\ retAt \in {"negotiate", "compile", "execute",
                                  "postprocess", "persist", "end"}

\* C1: fail-closed device policy.  Once the devices are enumerated and "GPU"
\* is not among them, run_gpu_inference has returned False on the spot: on
\* that run the model is never read or reshaped, nothing is compiled or
\* inferred and no output image is written; and compile_model is only ever
\* invoked with device "GPU".
FailClosedDevicePolicy ==
    /\ compiledOn \subseteq {"GPU"}
    /\ (Performed("available_devices") /\ ipc # "select" /\ "GPU" \notin devices)
         => /\ ipc = "done" /\ iret = "False"
            /\ ~Performed("read_model") /\ ~Performed("reshape")
            /\ ~Performed("compile_model") /\ ~Performed("infer")
            /\ ~Performed("imwrite") /\ ~wroteOut
            /\ compiledOn = {}

\* a run that enumerated only the CPU and was refused
FailClosedWitness ==
    /\ ipc = "done" /\ retAt = "select" /\ iret = "False"
    /\ devices = {"CPU"}

\* C2: pipeline halting and ordering.  The stages main has started are a
\* prefix of download, export, convert, inference; a stage is started only
\* when the one before it has returned, and returned success (True, or a
\* path whose file exists); stages not yet started are idle.
PipelineHaltsInOrder ==
    /\ Len(stageLog) <= Len(StageOrder)
    /\ \A i \in DOMAIN stageLog : stageLog[i] = StageOrder[i]
    /\ (Len(stageLog) >= 1) = (dpc # "idle")
    /\ (Len(stageLog) >= 2) = (epc # "idle")
    /\ (Len(stageLog) >= 3) = (cpc # "idle")
    /\ (Len(stageLog) >= 4) = (ipc # "idle")
    /\ Len(stageLog) >= 2 => dpc = "done" /\ dlLog[1].ret = "True"
    /\ Len(stageLog) >= 3 => epc = "done" /\ onnxRet = "path" /\ onnxFile
    /\ Len(stageLog) >= 4 => cpc = "done" /\ ovRet = "path" /\ xmlFile # "absent"
    /\ mpc = "finished" => Len(stageLog) = 4 /\ ipc = "done"

\* main halted after the exporter reported failure: two stages started
PipelineHaltWitness ==
    /\ mpc = "halted"
    /\ stageLog = <<"download_model", "export_realesrgan_to_onnx">>
    /\ onnxRet = "None"

\* C3: fault containment.  Every stage that has terminated did so by
\* returning its success value or its failure sentinel; no fault leaves a
\* stage.
FaultContainment ==
    /\ dpc = "done" => dlLog[Len(dlLog)].ret \in {"True", "False"}
    /\ epc = "done" => onnxRet \in {"path", "None"}
    /\ cpc = "done" => ovRet \in {"path", "None"}
    /\ ipc = "done" => iret \in {"True", "False"}
    /\ mpc # "crashed"

\* C4: two-path compilation.  When convert_to_openvino has returned, the
\* fallback path was run exactly if the primary path failed (raised, or
\* completed without the .xml file); None is returned only when both paths
\* were attempted and both failed; a path is returned only when the .xml
\* file exists.
TwoPathCompilation ==
    (mpc = "convert" /\ cpc = "done" /\ ovRet \in {"path", "None"}) =>
        /\ (fallback # "none") = (primary \in {"raised", "nofile"})
        /\ ovRet = "None" => /\ primary \in {"raised", "nofile"}
                             /\ fallback \in {"raised", "nofile"}
        /\ ovRet = "path" => xmlFile # "absent"

\* the recognised keys in the order of preference
KeyOrder == <<"params_ema", "params", "model">>

\* the first key of KeyOrder that K holds, "flat" when it holds none
FirstPresent(K) ==
    IF \A i \in DOMAIN KeyOrder : KeyOrder[i] \notin K THEN "flat"
    ELSE KeyOrder[CHOOSE i \in DOMAIN KeyOrder :
                     /\ KeyOrder[i] \in K
                     /\ \A j \in 1..(i - 1) : KeyOrder[j] \notin K]

\* C5: layout-detection precedence.  Whatever keys the loaded container
\* holds, the parameters bound are those under the first present key in the
\* order params_ema, params, model, the whole container when none is
\* present; no export binds twice, and an export that got past the binding
\* step, or returned with the container loaded, bound exactly once.
LayoutPrecedence ==
    /\ Len(bound) <= 1
    /\ \A i \in DOMAIN bound : keys # NotLoaded /\ bound[i] = FirstPresent(keys)
    /\ (mpc = "export" /\ epc \in {"export", "check"}) => Len(bound) = 1
    /\ (mpc = "export" /\ epc = "done" /\ keys # NotLoaded) => Len(bound) = 1

\* a container with both params_ema and params, bound
LayoutPrecedenceWitness ==
    /\ keys = {"params_ema", "params"}
    /\ bound = <<"params_ema">>
    /\ epc = "done" /\ onnxRet = "path"

\* C6 as stated: of two calls in a row, the first finding no file, there is
\* exactly one network transfer in total; the second call makes no request,
\* writes nothing and returns True.
IdempotentCachingAsStated ==
    \A i \in 1..(Len(dlLog) - 1) :
        (~dlLog[i].hit /\ dlLog[i + 1].ret # "pending") =>
            /\ dlLog[i].req + dlLog[i + 1].req = 1
            /\ dlLog[i + 1].req = 0
            /\ ~dlLog[i + 1].wrote
            /\ dlLog[i + 1].ret = "True"

\* C6: idempotent caching, amended.  Of two calls in a row, if the first
\* returned True, the second makes no network request, writes nothing and
\* returns True; the two calls make one transfer in total when the first
\* found no file, none when it found one.
IdempotentCaching ==
    \A i \in 1..(Len(dlLog) - 1) :
        dlLog[i].ret = "True" =>
            /\ dlLog[i + 1].req = 0
            /\ ~dlLog[i + 1].wrote
            /\ dlLog[i + 1].ret \in {"pending", "True"}
            /\ dlLog[i].req + dlLog[i + 1].req = IF dlLog[i].hit THEN 0 ELSE 1

\* a download that succeeded, followed by a call that returned
IdempotentCachingWitness ==
    /\ Len(dlLog) >= 2
    /\ dlLog[1] = [hit |-> FALSE, req |-> 1, wrote |-> TRUE, ret |-> "True"]
    /\ dlLog[2].ret = "True"

\* the image the normalization step started from
Ingested == IF readImg = NoImage THEN Placeholder ELSE readImg

\* both sides floor-divided to multiples of 64; nothing done when they are
\* multiples already
FlooredToStride ==
    /\ img.h = Stride * (Ingested.h \div Stride)
    /\ img.w = Stride * (Ingested.w \div Stride)
    /\ (Ingested.h % Stride = 0 /\ Ingested.w % Stride = 0)
          => img = Ingested /\ ~Performed("resize")

\* C7 as stated: the image handed to preprocessing has height 64*floor(h/64)
\* and width 64*floor(w/64), obtained by cropping (what is left shows a
\* region of the picture of its own size), and is unchanged when both sides
\* are multiples of 64.
CropToStrideAsStated ==
    PastNormalize =>
        /\ FlooredToStride
        /\ img.srcH = img.h /\ img.srcW = img.w

\* C7: amended.  The image handed to preprocessing has height
\* 64*floor(h/64) and width 64*floor(w/64), and is unchanged, with no resize
\* performed, when both sides are multiples of 64; otherwise it is obtained
\* by cv2.resize, which rescales the whole picture to the new size.
ResizeToStride ==
    PastNormalize =>
        /\ FlooredToStride
        /\ img.srcH = Ingested.h /\ img.srcW = Ingested.w
        /\ (Ingested.h % Stride # 0 \/ Ingested.w % Stride # 0)
              => Performed("resize")

\* the 300x260 image, handed to preprocessing as 256x256
ResizeToStrideWitness ==
    /\ ipc = "preprocess"
    /\ readImg = FileImage(300, 260)
    /\ img.h = 256 /\ img.w = 256
    /\ Performed("resize")

\* the operations of a complete run, in order
FullTrace ==
    <<"Core", "available_devices", "read_model", "imread", "preprocess">>
    \o (IF dynamic THEN <<"reshape">> ELSE <<>>)
    \o <<"compile_model", "infer", "postprocess", "imwrite">>

\* C8: graceful degrade on unreadable input.  When cv2.imread returned
\* None, the function did not return at the ingest step nor at the shape
\* normalization; the image is the 256x256 placeholder from then on, never
\* resized; and a run that returned True went through every later step.
GracefulDegrade ==
    ReadFailed =>
        /\ img = Placeholder
        /\ img.h = 256 /\ img.w = 256
        /\ ~Performed("resize")
        /\ ipc \notin {"ingest", "normalize"} => PastNormalize
        /\ retAt \notin {"ingest", "normalize"}
        /\ iret = "True" => trace = FullTrace

\* an unreadable input, a complete run, the output written
GracefulDegradeWitness ==
    /\ ReadFailed
    /\ ipc = "done" /\ iret = "True" /\ wroteOut
    /\ img = Placeholder

\* C9: the Persist step is fatal on failure.  run_gpu_inference returns
\* True only on runs that wrote the result image.
PersistFatal ==
    (ipc = "done" /\ iret = "True") => wroteOut

\* C10: a failed download never poisons the cache.  When download_model has
\* returned False no file is left at MODEL_PATH, and when it has returned
\* True the file there is completely transferred.
NoCachePoisoning ==
    dpc = "done" =>
        /\ dlLog[Len(dlLog)].ret = "False" => ~modelFile.exists
        /\ dlLog[Len(dlLog)].ret = "True"
              => modelFile.exists /\ modelFile.blocks = NumBlocks

====
